---- MODULE Spec2Model ----
(***************************************************************************)
(* A model of pretrain/utils/train_utils.py: the training-loop driver      *)
(* train, its learning-rate schedule adjust_learning_rate, the policy      *)
(* selection get_policies, and the collective calls (all_reduce, barrier)  *)
(* that train and evaluation make when several ranks run them under FSDP.  *)
(*                                                                         *)
(* Numbers.  Losses are exact rationals <<n, d>> (d > 0), float("inf") is  *)
(* <<1, 0>>.  The learning-rate schedule is computed in a binary floating  *)
(* point format with MantBits significant bits and round-to-nearest-even,  *)
(* the arithmetic of Python floats at a smaller precision.                 *)
(***************************************************************************)
EXTENDS Integers, Sequences, FiniteSets, TLC

\* ------------------------------------------------------------------ bounds
MantBits == 4
MaxEpochs == 2
MaxLen == 3
MaxAccum == 3
MaxCkptEpochs == 10
MaxLoss == 2
WorldSize == 2
MaxDistEpochs == 3

\* ------------------------------------------------------- exact arithmetic
Abs(x) == IF x < 0 THEN -x ELSE x

RECURSIVE GCD(_, _)
GCD(a, b) == IF b = 0 THEN a ELSE GCD(b, a % b)

RECURSIVE Pow2(_)
Pow2(k) == IF k = 0 THEN 1 ELSE 2 * Pow2(k - 1)

Inf == <<1, 0>>

Rat(n, d) ==
    IF d = 0 THEN Inf
    ELSE IF n = 0 THEN <<0, 1>>
    ELSE LET g == GCD(Abs(n), Abs(d))
             s == IF d < 0 THEN -1 ELSE 1
         IN  <<s * (n \div g), s * (d \div g)>>

Int2Rat(n) == <<n, 1>>

RAdd(a, b) == Rat(a[1] * b[2] + b[1] * a[2], a[2] * b[2])
RSub(a, b) == Rat(a[1] * b[2] - b[1] * a[2], a[2] * b[2])
RMul(a, b) == Rat(a[1] * b[1], a[2] * b[2])
RDiv(a, b) == Rat(a[1] * b[2], a[2] * b[1])
RLess(a, b) == a[1] * b[2] < b[1] * a[2]
RLeq(a, b) == a[1] * b[2] <= b[1] * a[2]
RNeg(a) == <<-a[1], a[2]>>
RAbs(a) == <<Abs(a[1]), a[2]>>

RECURSIVE RSum(_)
RSum(s) == IF s = <<>> THEN <<0, 1>> ELSE RAdd(Head(s), RSum(Tail(s)))

\* ---------------------------------------------------- floating point
\* n / d rounded to the nearest integer, ties to the even one (n >= 0, d > 0)
RoundHalfEven(n, d) ==
    LET q == n \div d
        r == n % d
    IN  IF 2 * r > d \/ (2 * r = d /\ q % 2 = 1) THEN q + 1 ELSE q

\* the float nearest to n / d > 0: scale into [2^(MantBits-1), 2^MantBits), round
RECURSIVE FlPos(_, _)
FlPos(n, d) ==
    IF n < Pow2(MantBits - 1) * d
    THEN LET h == FlPos(2 * n, d) IN Rat(h[1], 2 * h[2])
    ELSE IF n >= Pow2(MantBits) * d
    THEN LET h == FlPos(n, 2 * d) IN Rat(2 * h[1], h[2])
    ELSE <<RoundHalfEven(n, d), 1>>

Fl(x) ==
    IF x[1] = 0 THEN <<0, 1>>
    ELSE IF x[1] < 0 THEN RNeg(FlPos(-x[1], x[2]))
    ELSE FlPos(x[1], x[2])

FAdd(a, b) == Fl(RAdd(a, b))
FSub(a, b) == Fl(RSub(a, b))
FMul(a, b) == Fl(RMul(a, b))
FDiv(a, b) == Fl(RDiv(a, b))

\* math.cos(math.pi * t) for 0 <= t <= 1: Bhaskara's rational approximation
\* (1 - 4 t^2) / (1 + t^2) on [0, 1/2], mirrored on [1/2, 1]; exact at
\* t = 0, 1/3, 1/2, 2/3, 1 and within 0.002 elsewhere, strictly decreasing.
CosPi(t) ==
    LET p == t[1]
        q == t[2]
        m == q - p
    IN  IF 2 * p <= q
        THEN Fl(Rat(q * q - 4 * p * p, q * q + p * p))
        ELSE Fl(Rat(-(q * q - 4 * m * m), q * q + m * m))

\* ------------------------------------------------- adjust_learning_rate
\* a variant of the schedule that decays to 0 instead of min_lr
LearningRateNoFloor(epoch, c) ==
    IF RLess(epoch, Int2Rat(c.warmup_epochs))
    THEN FDiv(FMul(c.lr, epoch), Int2Rat(c.warmup_epochs))
    ELSE LET t == RDiv(FSub(epoch, Int2Rat(c.warmup_epochs)),
                       Int2Rat(c.num_epochs - c.warmup_epochs))
         IN  FMul(FMul(c.lr, <<1, 2>>), FAdd(<<1, 1>>, CosPi(t)))

\* the value adjust_learning_rate computes and returns (lines 26-30, 36);
\* c is train_config, epoch a float
LearningRate(epoch, c) ==
    IF RLess(epoch, Int2Rat(c.warmup_epochs))
    THEN FDiv(FMul(c.lr, epoch), Int2Rat(c.warmup_epochs))
    ELSE LET t == RDiv(FSub(epoch, Int2Rat(c.warmup_epochs)),
                       Int2Rat(c.num_epochs - c.warmup_epochs))
         IN  FAdd(c.min_lr,
                  FMul(FMul(FSub(c.lr, c.min_lr), <<1, 2>>),
                       FAdd(<<1, 1>>, CosPi(t))))

\* the loop over optimizer.param_groups (lines 31-35)
SetParamGroups(groups, lr) ==
    [i \in DOMAIN groups |->
        IF "lr_scale" \in DOMAIN groups[i]
        THEN [groups[i] EXCEPT !.lr = FMul(lr, groups[i].lr_scale)]
        ELSE [groups[i] EXCEPT !.lr = lr]]

\* the argument train passes: step / len(train_dataloader) + epoch (line 89)
FractionalEpoch(e, s, n) == FAdd(FDiv(Int2Rat(s), Int2Rat(n)), Int2Rat(e))

\* ------------------------------------------------------------------ state
VARIABLES
    cfg,            \* train's arguments and its environment, fixed during a run
    pc,             \* where train is
    epoch, step,    \* the loop variables of train
    scaler,         \* the gradient scaler train created, or "none"
    param_groups,   \* optimizer.param_groups
    grad_pending,   \* backward passes accumulated in .grad since zero_grad
    calls,          \* the framework calls of the latest loop iteration
    total_loss, train_loss, val_loss, best_val_loss, eval_epoch_loss, results,
    ckpt_calls,     \* the calls of the latest checkpoint block (lines 167-196)
    updates,        \* history: optimizer updates in the current epoch
    batch_sum,      \* history: sum over ranks of the model's batch losses, this epoch
    mean_sum,       \* history: sum over epochs of the epoch's mean batch loss
    eval_sum,       \* history: sum over epochs of eval_epoch_loss
    min_eval,       \* history: least eval_epoch_loss of the epochs validated so far
    lr_epoch,       \* the epoch the latest adjust_learning_rate call was given
    lr_ret,         \* the two latest (epoch, lr) of direct adjust_learning_rate calls
    policy,         \* get_policies: its inputs and what it returned
    ranks           \* per rank: where it is in train under FSDP

trainVars == <<pc, epoch, step, scaler, param_groups, grad_pending, calls,
               total_loss, train_loss, val_loss, best_val_loss, eval_epoch_loss,
               results, ckpt_calls, updates, batch_sum, mean_sum, eval_sum,
               min_eval, lr_epoch>>
vars == <<cfg, trainVars, lr_ret, policy, ranks>>

Zero == <<0, 1>>
None == "None"

\* ------------------------------------------------------------------ train
\* Printing, the progress bar, the timers and the save_metrics lists and files
\* touch nothing the rest of train reads, and are left out.
\* a variant of the update condition that forgets the last batch of the epoch
IsUpdateStepNoTail(s, c) == (s + 1) % c.gradient_accumulation_steps = 0

\* the update condition of the accumulation loop (lines 105 and 119)
IsUpdateStep(s, c) ==
    (s + 1) % c.gradient_accumulation_steps = 0 \/ s = c.len_train - 1

\* gradient clipping is configured (lines 106 and 120)
Clipping(c) == c.gradient_clipping /\ RLess(Zero, c.gradient_clipping_threshold)

ClipCall(c) ==
    IF c.enable_fsdp THEN "model.clip_grad_norm_" ELSE "torch.nn.utils.clip_grad_norm_"

\* a variant of the fp16 branch that clips before it unscales
Fp16CallsClipFirst(s, c) ==
    <<"scaler.scale(loss).backward">>
    \o (IF (s + 1) % c.gradient_accumulation_steps = 0 \/ s = c.len_train - 1
        THEN (IF c.gradient_clipping /\ RLess(<<0, 1>>, c.gradient_clipping_threshold)
              THEN <<(IF c.enable_fsdp THEN "model.clip_grad_norm_"
                      ELSE "torch.nn.utils.clip_grad_norm_"), "scaler.unscale_">>
              ELSE <<>>)
             \o <<"scaler.step", "scaler.update", "optimizer.zero_grad">>
        ELSE <<>>)

\* the calls of the fp16 branch of one iteration (lines 102-115)
Fp16Calls(s, c) ==
    <<"scaler.scale(loss).backward">>
    \o (IF IsUpdateStep(s, c)
        THEN (IF Clipping(c) THEN <<"scaler.unscale_", ClipCall(c)>> ELSE <<>>)
             \o <<"scaler.step", "scaler.update", "optimizer.zero_grad">>
        ELSE <<>>)

\* the calls of the regular branch of one iteration (lines 116-127)
RegularCalls(s, c) ==
    <<"loss.backward">>
    \o (IF IsUpdateStep(s, c)
        THEN (IF Clipping(c) THEN <<ClipCall(c)>> ELSE <<>>)
             \o <<"optimizer.step", "optimizer.zero_grad">>
        ELSE <<>>)

\* what a sequence of calls leaves in .grad: backward accumulates, zero_grad clears
RECURSIVE GradAfter(_, _)
GradAfter(pending, cs) ==
    IF cs = <<>> THEN pending
    ELSE IF Head(cs) \in {"loss.backward", "scaler.scale(loss).backward"}
    THEN GradAfter(pending + 1, Tail(cs))
    ELSE IF Head(cs) = "optimizer.zero_grad" THEN GradAfter(0, Tail(cs))
    ELSE GradAfter(pending, Tail(cs))

\* the optimizer updates in a sequence of calls
RECURSIVE UpdatesIn(_)
UpdatesIn(cs) ==
    IF cs = <<>> THEN 0
    ELSE (IF Head(cs) \in {"optimizer.step", "scaler.step"} THEN 1 ELSE 0)
         + UpdatesIn(Tail(cs))

\* lines 57-79: the scaler, the empty lists, best_val_loss
Enter ==
    /\ pc = "entry"
    /\ scaler' = IF cfg.use_fp16 /\ cfg.enable_fsdp THEN "ShardedGradScaler"
                 ELSE IF cfg.use_fp16 THEN "GradScaler"
                 ELSE "none"
    /\ train_loss' = <<>>
    /\ val_loss' = <<>>
    /\ results' = <<>>
    /\ best_val_loss' = Inf
    /\ epoch' = 0
    /\ pc' = "epoch"
    /\ UNCHANGED <<cfg, step, param_groups, grad_pending, calls, total_loss,
                   eval_epoch_loss, ckpt_calls, updates, batch_sum, mean_sum,
                   eval_sum, min_eval, lr_epoch, lr_ret, policy, ranks>>

\* the head of the loop over epochs (lines 80-86): total_loss = 0.0, or leave the loop
BeginEpoch ==
    /\ pc = "epoch"
    /\ pc' = IF epoch < cfg.num_epochs THEN "step" ELSE "finish"
    /\ total_loss' = IF epoch < cfg.num_epochs THEN Zero ELSE total_loss
    /\ step' = 0
    /\ updates' = 0
    /\ batch_sum' = Zero
    /\ UNCHANGED <<cfg, epoch, scaler, param_groups, grad_pending, calls, train_loss,
                   val_loss, best_val_loss, eval_epoch_loss, results, ckpt_calls,
                   mean_sum, eval_sum, min_eval, lr_epoch, lr_ret, policy, ranks>>

\* the share of one batch loss that total_loss accumulates (lines 98, 101)
ScaledLoss(l, c) == RDiv(Int2Rat(l), Int2Rat(c.gradient_accumulation_steps))

\* the calls of one iteration (lines 88-127)
StepCalls(s, c) ==
    (IF c.scheduler = "CosineLR" THEN <<"adjust_learning_rate">> ELSE <<>>)
    \o <<"model.forward">>
    \o (IF c.use_fp16 THEN Fp16Calls(s, c) ELSE RegularCalls(s, c))

\* one iteration of the loop over train_dataloader (lines 87-132)
TrainStep ==
    /\ pc = "step"
    /\ \E l \in cfg.loss_values :
        LET cs == StepCalls(step, cfg)
            arg == FractionalEpoch(epoch, step, cfg.len_train)
        IN  /\ param_groups' = IF cfg.scheduler = "CosineLR"
                               THEN SetParamGroups(param_groups, LearningRate(arg, cfg))
                               ELSE param_groups
            /\ lr_epoch' = IF cfg.scheduler = "CosineLR" THEN arg ELSE lr_epoch
            /\ calls' = cs
            /\ total_loss' = RAdd(total_loss, ScaledLoss(l, cfg))
            /\ batch_sum' = RAdd(batch_sum, Int2Rat(l))
            /\ grad_pending' = GradAfter(grad_pending, cs)
            /\ updates' = updates + UpdatesIn(cs)
            /\ step' = step + 1
            /\ pc' = IF step + 1 = cfg.len_train THEN "epoch_end" ELSE "step"
    /\ UNCHANGED <<cfg, epoch, scaler, train_loss, val_loss, best_val_loss,
                   eval_epoch_loss, results, ckpt_calls, mean_sum, eval_sum,
                   min_eval, lr_ret, policy, ranks>>

\* total_loss after the all_reduce of line 139, o the other ranks' total_loss
Reduced(total, o, c) ==
    IF c.device_count > 1 /\ c.enable_fsdp THEN RAdd(total, o) ELSE total

\* train_epoch_loss (lines 138-142)
TrainEpochLoss(total, o, c) ==
    LET mean == RDiv(Reduced(total, o, c), Int2Rat(c.len_train))
    IN  IF c.enable_fsdp THEN RDiv(mean, Int2Rat(c.world_size)) ELSE mean

\* the end of the training part of an epoch (lines 135-143, 159); under FSDP the
\* model returned the batch loss m on every batch of every other rank, b in all
EndTrainEpoch ==
    /\ pc = "epoch_end"
    /\ \E m \in (IF cfg.enable_fsdp THEN cfg.loss_values ELSE {0}) :
        LET b == m * cfg.len_train * (cfg.world_size - 1)
            o == RDiv(Int2Rat(b), Int2Rat(cfg.gradient_accumulation_steps))
            n == cfg.len_train * (IF cfg.enable_fsdp THEN cfg.world_size ELSE 1)
        IN  /\ train_loss' = Append(train_loss, TrainEpochLoss(total_loss, o, cfg))
            /\ batch_sum' = RAdd(batch_sum, Int2Rat(b))
            /\ mean_sum' = RAdd(mean_sum, RDiv(RAdd(batch_sum, Int2Rat(b)), Int2Rat(n)))
    /\ pc' = IF cfg.run_validation THEN "validate" ELSE "epoch"
    /\ epoch' = IF cfg.run_validation THEN epoch ELSE epoch + 1
    /\ UNCHANGED <<cfg, step, scaler, param_groups, grad_pending, calls, total_loss,
                   val_loss, best_val_loss, eval_epoch_loss, results, ckpt_calls,
                   updates, eval_sum, min_eval, lr_epoch, lr_ret, policy, ranks>>

\* the condition of the checkpoint block (line 167); e is the 0-based epoch
SaveCondition(c, e, loss, best) ==
    c.save_model /\ (RLess(loss, best) \/ (e + 1) % 10 = 0)

\* the routines the checkpoint block calls between its barriers (lines 170-194)
SaveRoutines(c) ==
    IF ~c.enable_fsdp THEN <<"save_model_checkpoint_base">>
    ELSE (IF c.checkpoint_type = "FULL_STATE_DICT" THEN <<"save_model_checkpoint">>
          ELSE IF c.checkpoint_type = "SHARDED_STATE_DICT"
          THEN <<"save_model_and_optimizer_sharded">>
               \o (IF c.save_optimizer
                   THEN <<"save_model_and_optimizer_sharded">> ELSE <<>>)
          ELSE <<>>)
         \o (IF c.save_optimizer THEN <<"save_optimizer_checkpoint">> ELSE <<>>)

\* the calls of the checkpoint block (lines 168-196)
CheckpointCalls(c) ==
    IF c.enable_fsdp
    THEN <<"dist.barrier">> \o SaveRoutines(c) \o <<"dist.barrier">>
    ELSE SaveRoutines(c)

\* best_val_loss after line 199-200
NewBest(loss, best) == IF RLess(loss, best) THEN loss ELSE best

RMin(a, b) == IF RLess(b, a) THEN b ELSE a

\* the validation part of an epoch (lines 159-206).  With a test_dataloader the
\* call of line 161 passes seven positional arguments to evaluation, which takes
\* at most five: Python raises TypeError and train ends there.
Validate ==
    /\ pc = "validate"
    /\ IF cfg.test_dataloader
       THEN /\ pc' = "raised"
            /\ UNCHANGED <<epoch, eval_epoch_loss, ckpt_calls, best_val_loss, val_loss,
                           eval_sum, min_eval>>
       ELSE \E v \in cfg.eval_values :
            /\ eval_epoch_loss' = Int2Rat(v)
            /\ ckpt_calls' = IF SaveCondition(cfg, epoch, Int2Rat(v), best_val_loss)
                             THEN CheckpointCalls(cfg) ELSE <<>>
            /\ best_val_loss' = NewBest(Int2Rat(v), best_val_loss)
            /\ val_loss' = Append(val_loss, NewBest(Int2Rat(v), best_val_loss))
            /\ eval_sum' = RAdd(eval_sum, Int2Rat(v))
            /\ min_eval' = RMin(min_eval, Int2Rat(v))
            /\ epoch' = epoch + 1
            /\ pc' = "epoch"
    /\ UNCHANGED <<cfg, step, scaler, param_groups, grad_pending, calls, total_loss,
                   train_loss, results, updates, batch_sum, mean_sum, lr_epoch,
                   lr_ret, policy, ranks>>

\* sum(xs) / len(xs) (lines 219, 221)
Mean(xs) == RDiv(RSum(xs), Int2Rat(Len(xs)))

\* the results dictionary (lines 217-229); the two times are not modelled
Results(c, tl, vl) ==
    [k \in {"avg_train_loss", "avg_epoch_time", "avg_checkpoint_time"}
           \cup (IF c.run_validation THEN {"avg_eval_loss"} ELSE {}) |->
        IF k = "avg_train_loss" THEN Mean(tl)
        ELSE IF k = "avg_eval_loss" THEN Mean(vl)
        ELSE Zero]

\* after the last epoch (lines 217-235)
Finish ==
    /\ pc = "finish"
    /\ results' = Results(cfg, train_loss, val_loss)
    /\ pc' = "done"
    /\ UNCHANGED <<cfg, epoch, step, scaler, param_groups, grad_pending, calls,
                   total_loss, train_loss, val_loss, best_val_loss, eval_epoch_loss,
                   ckpt_calls, updates, batch_sum, mean_sum, eval_sum, min_eval,
                   lr_epoch, lr_ret, policy, ranks>>

\* ------------------------------------------------------- initial states
\* optimizer.param_groups as the caller built them: one group with an lr_scale
InitialGroups(c) == <<[lr |-> c.lr, lr_scale |-> <<1, 2>>], [lr |-> c.lr]>>

IdleRanks == [r \in 1..WorldSize |-> [pc |-> "idle"]]
NoPolicy == [called |-> FALSE]

\* train is entered with the arguments c
AtEntry(c) ==
    /\ cfg = c
    /\ pc = "entry"
    /\ epoch = 0
    /\ step = 0
    /\ scaler = "none"
    /\ param_groups = InitialGroups(c)
    /\ grad_pending = 0
    /\ calls = <<>>
    /\ total_loss = Zero
    /\ train_loss = <<>>
    /\ val_loss = <<>>
    /\ best_val_loss = Inf
    /\ eval_epoch_loss = Inf
    /\ results = <<>>
    /\ ckpt_calls = <<>>
    /\ updates = 0
    /\ batch_sum = Zero
    /\ mean_sum = Zero
    /\ eval_sum = Zero
    /\ min_eval = Inf
    /\ lr_epoch = Zero

\* nothing else of the module is in use
NoDirectCalls == lr_ret = <<>> /\ policy = NoPolicy
NoRanks == ranks = IdleRanks

\* the arguments every specification fixes unless it varies them
Defaults ==
    [use_fp16 |-> FALSE, enable_fsdp |-> FALSE, gradient_clipping |-> FALSE,
     gradient_clipping_threshold |-> <<1, 1>>, run_validation |-> TRUE,
     save_model |-> TRUE, save_optimizer |-> FALSE, scheduler |-> "StepLR",
     num_epochs |-> 1, len_train |-> 1, gradient_accumulation_steps |-> 1,
     checkpoint_type |-> "FULL_STATE_DICT", world_size |-> WorldSize,
     device_count |-> 2, test_dataloader |-> FALSE, loss_values |-> {1},
     eval_values |-> {1}, lr |-> <<8, 1>>, min_lr |-> <<1, 1>>, warmup_epochs |-> 0]

\* Defaults with the fields of the record v replaced
With(v) == [k \in DOMAIN Defaults |-> IF k \in DOMAIN v THEN v[k] ELSE Defaults[k]]

\* the accumulation loop under every precision, clipping and scheduler setting
StepConfigs ==
    {With(v) : v \in [use_fp16 : BOOLEAN, enable_fsdp : BOOLEAN,
                      gradient_clipping : BOOLEAN,
                      gradient_clipping_threshold : {Zero, <<1, 1>>},
                      run_validation : BOOLEAN,
                      scheduler : {"CosineLR", "StepLR"},
                      num_epochs : 1..MaxEpochs, len_train : 1..MaxLen,
                      gradient_accumulation_steps : 1..MaxAccum]}

Init == (\E c \in StepConfigs : AtEntry(c)) /\ NoDirectCalls /\ NoRanks

Next == Enter \/ BeginEpoch \/ TrainStep \/ EndTrainEpoch \/ Validate \/ Finish

Spec == Init /\ [][Next]_vars

\* ------------------------------------------- claims on the training loop
Range(f) == {f[i] : i \in DOMAIN f}
Count(cs, names) == Cardinality({i \in DOMAIN cs : cs[i] \in names})
\* the position of the first call of cs among names, 0 when there is none
Idx(cs, names) ==
    IF \E i \in DOMAIN cs : cs[i] \in names
    THEN CHOOSE i \in DOMAIN cs : cs[i] \in names /\ \A j \in 1..(i - 1) : cs[j] \notin names
    ELSE 0
StepNames == {"optimizer.step", "scaler.step"}
BackwardNames == {"loss.backward", "scaler.scale(loss).backward"}
ClipNames == {"model.clip_grad_norm_", "torch.nn.utils.clip_grad_norm_"}
ScalerNames == {"scaler.scale(loss).backward", "scaler.unscale_", "scaler.step",
                "scaler.update"}
\* calls holds the calls of iteration step - 1 of the current epoch
AfterStep == pc \in {"step", "epoch_end"} /\ step >= 1
\* iteration step - 1 is one the claim says updates
AtBoundary ==
    step % cfg.gradient_accumulation_steps = 0 \/ step - 1 = cfg.len_train - 1
CeilDiv(n, g) == (n + g - 1) \div g

\* C1: in every epoch an optimizer update (optimizer.step, or scaler.step under
\* use_fp16) happens at step s exactly when (s+1) % G = 0 or s = N-1, once, and
\* optimizer.zero_grad() is the next call on the optimizer after it (under fp16
\* only scaler.update() stands between); so when the loop over the batches ends
\* no backward pass is left without an update, ceil(N/G) updates were made, and
\* an epoch starts with no accumulated gradient.
GradientAccumulation ==
    /\ AfterStep =>
        /\ Count(calls, BackwardNames) = 1
        /\ Count(calls, StepNames) = (IF AtBoundary THEN 1 ELSE 0)
        /\ \A i \in DOMAIN calls : calls[i] \in StepNames =>
              /\ i < Len(calls)
              /\ Idx(SubSeq(calls, i + 1, Len(calls)), {"optimizer.zero_grad"})
                   = (IF cfg.use_fp16 THEN 2 ELSE 1)
              /\ cfg.use_fp16 => calls[i + 1] = "scaler.update"
        /\ Count(calls, {"optimizer.zero_grad"}) = Count(calls, StepNames)
    /\ pc \in {"epoch_end", "validate", "epoch", "finish", "done", "raised"} =>
        grad_pending = 0
    /\ pc = "epoch_end" =>
        updates = CeilDiv(cfg.len_train, cfg.gradient_accumulation_steps)
    /\ (pc = "step" /\ step = 0) => grad_pending = 0

\* an epoch whose length is no multiple of G has ended with its last, partial
\* group of batches applied
GradientAccumulationWitness ==
    /\ pc = "epoch_end"
    /\ cfg.gradient_accumulation_steps > 1
    /\ cfg.len_train % cfg.gradient_accumulation_steps # 0
    /\ cfg.len_train > cfg.gradient_accumulation_steps
    /\ updates = 2
    /\ Count(calls, StepNames) = 1

\* C8: under use_fp16 every backward pass is scaler.scale(loss).backward,
\* optimizer.step is never called directly, and at an accumulation boundary the
\* calls after the backward pass are scaler.unscale_, clip_grad_norm_ (both, and
\* only, when gradient_clipping is set with a positive threshold), scaler.step,
\* scaler.update, optimizer.zero_grad, in this order; without use_fp16 no scaler
\* is created or used and clipping, if enabled, precedes optimizer.step.
MixedPrecisionOrdering ==
    /\ (pc # "entry" /\ cfg.use_fp16) => scaler # "none"
    /\ ~cfg.use_fp16 => scaler = "none"
    /\ (AfterStep /\ cfg.use_fp16) =>
        LET b == Idx(calls, BackwardNames)
            rest == SubSeq(calls, b + 1, Len(calls))
            clip == cfg.gradient_clipping /\ cfg.gradient_clipping_threshold[1] > 0
        IN  /\ calls[b] = "scaler.scale(loss).backward"
            /\ Count(calls, {"optimizer.step", "loss.backward"}) = 0
            /\ ~AtBoundary => rest = <<>>
            /\ (AtBoundary /\ clip) =>
                  /\ Len(rest) = 5
                  /\ rest[1] = "scaler.unscale_"
                  /\ rest[2] \in ClipNames
                  /\ SubSeq(rest, 3, 5)
                       = <<"scaler.step", "scaler.update", "optimizer.zero_grad">>
            /\ (AtBoundary /\ ~clip) =>
                  rest = <<"scaler.step", "scaler.update", "optimizer.zero_grad">>
            /\ Count(calls, {"scaler.step"}) = Count(calls, {"scaler.update"})
    /\ (AfterStep /\ ~cfg.use_fp16) =>
        LET clip == cfg.gradient_clipping /\ cfg.gradient_clipping_threshold[1] > 0
        IN  /\ Count(calls, ScalerNames) = 0
            /\ Count(calls, ClipNames) = (IF AtBoundary /\ clip THEN 1 ELSE 0)
            /\ Count(calls, ClipNames) = 1 =>
                  Idx(calls, ClipNames) + 1 = Idx(calls, {"optimizer.step"})

\* an fp16 update with clipping has happened
MixedPrecisionOrderingWitness ==
    /\ AfterStep
    /\ cfg.use_fp16
    /\ "scaler.unscale_" \in Range(calls)
    /\ "scaler.update" \in Range(calls)

\* ------------------------------------------------ claims on the results
\* the losses under every accumulation setting, alone and under FSDP
LossConfigs ==
    {With(v) : v \in [enable_fsdp : BOOLEAN, device_count : {1, 2},
                      run_validation : BOOLEAN, test_dataloader : BOOLEAN,
                      num_epochs : 1..MaxEpochs, len_train : 1..MaxLen,
                      gradient_accumulation_steps : 1..MaxAccum,
                      loss_values : {1..MaxLoss}, eval_values : {1..MaxLoss}]}

InitLoss == (\E c \in LossConfigs : AtEntry(c)) /\ NoDirectCalls /\ NoRanks

SpecLoss == InitLoss /\ [][Next]_vars

\* C2: the 'avg_train_loss' train returns is the mean over the epochs of the
\* epoch's mean batch loss as the model returned it (summed over the ranks and
\* divided by the world size under FSDP), for every gradient_accumulation_steps.
AvgTrainLossIsMean ==
    pc = "done" =>
        results["avg_train_loss"] = RDiv(mean_sum, Int2Rat(cfg.num_epochs))

\* C3: with run_validation the 'avg_eval_loss' train returns is the mean over
\* the epochs of the eval_epoch_loss evaluation returned; without run_validation
\* the results have no key 'avg_eval_loss'.
AvgEvalLossIsMean ==
    pc = "done" =>
        IF cfg.run_validation
        THEN /\ "avg_eval_loss" \in DOMAIN results
             /\ results["avg_eval_loss"] = RDiv(eval_sum, Int2Rat(cfg.num_epochs))
        ELSE "avg_eval_loss" \notin DOMAIN results

\* --------------------------------------------- claims on the checkpoints
\* ten and more epochs under every validation and checkpoint setting
CkptConfigs ==
    {With(v) : v \in [run_validation : BOOLEAN, save_model : BOOLEAN,
                      enable_fsdp : BOOLEAN, save_optimizer : BOOLEAN,
                      checkpoint_type : {"FULL_STATE_DICT", "SHARDED_STATE_DICT",
                                         "LOCAL_STATE_DICT"},
                      test_dataloader : BOOLEAN,
                      num_epochs : {MaxCkptEpochs}, eval_values : {1..MaxLoss}]}

InitCkpt == (\E c \in CkptConfigs : AtEntry(c)) /\ NoDirectCalls /\ NoRanks

SpecCkpt == InitCkpt /\ [][Next]_vars

SaveNames == {"save_model_checkpoint_base", "save_model_checkpoint",
              "save_model_and_optimizer_sharded", "save_optimizer_checkpoint"}

\* C4: in epoch e (0-based) a checkpoint-saving routine is invoked if and only if
\* run_validation and save_model are set and this epoch's eval_epoch_loss is
\* strictly less than the least eval_epoch_loss of the earlier epochs (+infinity
\* in the first) or (e+1) % 10 = 0; without run_validation none is ever invoked.
CheckpointSaving ==
    /\ [][(pc = "validate" /\ pc' = "epoch") =>
            (Count(ckpt_calls', SaveNames) > 0
               <=> (cfg.run_validation /\ cfg.save_model
                    /\ (RLess(eval_epoch_loss', min_eval) \/ (epoch + 1) % 10 = 0)))]_vars
    /\ [](~cfg.run_validation => ckpt_calls = <<>>)

\* ------------------------------------- claims on the learning-rate schedule
\* a direct call adjust_learning_rate(optimizer, k / 2, train_config) on an
\* optimizer with the initial param groups (lines 24-36); the two latest calls
\* are kept
AdjustLearningRate ==
    /\ pc = "entry"
    /\ \E k \in 0..(2 * cfg.num_epochs) :
        LET e == Rat(k, 2)
            lr == LearningRate(e, cfg)
            call == [epoch |-> e, lr |-> lr,
                     groups |-> SetParamGroups(InitialGroups(cfg), lr)]
        IN  lr_ret' = IF Len(lr_ret) = 2 THEN <<lr_ret[2], call>>
                      ELSE Append(lr_ret, call)
    /\ UNCHANGED <<cfg, trainVars, policy, ranks>>

\* schedules with a warmup, 0 < warmup_epochs < num_epochs and min_lr <= lr
LrConfigs ==
    {c \in {With(v) : v \in [scheduler : {"CosineLR", "StepLR"},
                             num_epochs : 2..(MaxEpochs + 1),
                             warmup_epochs : 1..MaxEpochs,
                             len_train : 1..MaxLen,
                             lr : {<<8, 1>>, <<9, 1>>},
                             min_lr : {Zero, <<1, 2>>}]} :
        c.warmup_epochs < c.num_epochs}

InitLR == (\E c \in LrConfigs : AtEntry(c)) /\ NoDirectCalls /\ NoRanks

NextLR == AdjustLearningRate \/ Next

SpecLR == InitLR /\ [][NextLR]_vars

\* |a - b| <= b / 2^k
Within(a, b, k) == RLeq(RMul(RAbs(RSub(a, b)), Int2Rat(Pow2(k))), RAbs(b))

\* during warmup the rate is lr * epoch / warmup_epochs, to two roundings, 0 at 0
LrWarmup ==
    \A i \in DOMAIN lr_ret :
        RLess(lr_ret[i].epoch, Int2Rat(cfg.warmup_epochs)) =>
            /\ Within(lr_ret[i].lr,
                      RDiv(RMul(cfg.lr, lr_ret[i].epoch), Int2Rat(cfg.warmup_epochs)),
                      MantBits - 2)
            /\ lr_ret[i].epoch = Zero => lr_ret[i].lr = Zero

\* at epoch = warmup_epochs the rate is exactly lr
LrAtWarmupExact ==
    \A i \in DOMAIN lr_ret :
        lr_ret[i].epoch = Int2Rat(cfg.warmup_epochs) => lr_ret[i].lr = cfg.lr

\* at epoch = warmup_epochs the rate is lr to one unit in the last place, and
\* exactly lr when min_lr is 0
LrAtWarmupRounded ==
    \A i \in DOMAIN lr_ret :
        lr_ret[i].epoch = Int2Rat(cfg.warmup_epochs) =>
            /\ Within(lr_ret[i].lr, cfg.lr, MantBits - 1)
            /\ cfg.min_lr = Zero => lr_ret[i].lr = cfg.lr

\* at epoch = num_epochs the rate is exactly min_lr
LrAtEnd ==
    \A i \in DOMAIN lr_ret :
        lr_ret[i].epoch = Int2Rat(cfg.num_epochs) => lr_ret[i].lr = cfg.min_lr

\* between warmup_epochs and num_epochs the rate does not increase
LrNonIncreasing ==
    \A i, j \in DOMAIN lr_ret :
        (/\ RLeq(Int2Rat(cfg.warmup_epochs), lr_ret[i].epoch)
         /\ RLeq(lr_ret[i].epoch, lr_ret[j].epoch)
         /\ RLeq(lr_ret[j].epoch, Int2Rat(cfg.num_epochs)))
        => RLeq(lr_ret[j].lr, lr_ret[i].lr)

\* every param group holds the returned rate, times its lr_scale if it has one
\* (the scale of the model's group is 1/2, so the product is exact)
GroupsHold(groups, lr) ==
    \A g \in DOMAIN groups :
        groups[g].lr = (IF "lr_scale" \in DOMAIN groups[g]
                        THEN RMul(lr, groups[g].lr_scale) ELSE lr)

LrGroups == \A i \in DOMAIN lr_ret : GroupsHold(lr_ret[i].groups, lr_ret[i].lr)

\* train calls adjust_learning_rate first in every iteration, with epoch +
\* step / len(train_dataloader) to two roundings, exactly when the scheduler is
\* 'CosineLR'; otherwise the param groups keep the rates they came with
LrInTrain ==
    /\ AfterStep =>
        /\ Count(calls, {"adjust_learning_rate"})
             = (IF cfg.scheduler = "CosineLR" THEN 1 ELSE 0)
        /\ cfg.scheduler = "CosineLR" =>
            /\ calls[1] = "adjust_learning_rate"
            /\ lr_epoch = Zero <=> (epoch = 0 /\ step = 1)
            /\ Within(lr_epoch,
                      Rat(epoch * cfg.len_train + step - 1, cfg.len_train),
                      MantBits - 2)
            /\ \E lr \in {param_groups[2].lr} :
                 /\ GroupsHold(param_groups, lr)
                 /\ lr_epoch = Zero => lr = Zero
    /\ cfg.scheduler # "CosineLR" => param_groups = InitialGroups(cfg)

\* C5 as claimed: linear warmup from 0, exactly lr at epoch = warmup_epochs,
\* exactly min_lr at epoch = num_epochs, non-increasing between the two, written
\* to every param group (times lr_scale), called by train before every step with
\* the fractional epoch only under 'CosineLR'.
CosineScheduleExact ==
    LrWarmup /\ LrAtWarmupExact /\ LrAtEnd /\ LrNonIncreasing /\ LrGroups /\ LrInTrain

\* C5 (amended): as claimed, except that at epoch = warmup_epochs the rate is
\* min_lr + (lr - min_lr) as floating point computes it: lr to one unit in the
\* last place, and exactly lr when min_lr is 0.
CosineScheduleRounded ==
    LrWarmup /\ LrAtWarmupRounded /\ LrAtEnd /\ LrNonIncreasing /\ LrGroups /\ LrInTrain

\* the schedule was called at epoch = warmup_epochs and then at num_epochs, the
\* first call returned a rate that is not lr, and train has since run an
\* iteration under 'CosineLR'
CosineScheduleWitness ==
    /\ Len(lr_ret) = 2
    /\ lr_ret[1].epoch = Int2Rat(cfg.warmup_epochs)
    /\ lr_ret[1].lr # cfg.lr
    /\ lr_ret[2].epoch = Int2Rat(cfg.num_epochs)
    /\ cfg.scheduler = "CosineLR"
    /\ AfterStep
    /\ epoch = 1

\* ------------------------------------------------------------ get_policies
\* tuple comparison a >= b of two version pairs
VersionAtLeast(a, b) == a[1] > b[1] \/ (a[1] = b[1] /\ a[2] >= b[2])

\* verify_bfloat_support (lines 354-360), as a truth value; env is the platform
VerifyBfloatSupport(env) ==
    /\ env.cuda # None
    /\ env.is_bf16_supported
    /\ VersionAtLeast(env.cuda, <<11, 0>>)
    /\ env.is_nccl_available
    /\ VersionAtLeast(env.nccl, <<2, 10>>)

\* a variant of the selection that takes bf16 whenever it is ready
MixedPrecisionPolicyBfFirst(c, bf16_ready) ==
    IF c.mixed_precision
    THEN IF bf16_ready THEN "bfSixteen"
         ELSE IF c.use_fp16 THEN "fpSixteen"
         ELSE None
    ELSE None

\* mixed_precision_policy (lines 363-379)
MixedPrecisionPolicy(c, bf16_ready) ==
    IF c.mixed_precision
    THEN IF bf16_ready /\ ~c.use_fp16 THEN "bfSixteen"
         ELSE IF c.use_fp16 THEN "fpSixteen"
         ELSE None
    ELSE None

\* the platforms and configurations get_policies is called with
PolicyInputs ==
    [env : [cuda : {None, <<10, 2>>, <<11, 0>>, <<12, 1>>},
            is_bf16_supported : BOOLEAN, is_nccl_available : BOOLEAN,
            nccl : {<<2, 9>>, <<2, 10>>, <<3, 0>>}],
     cfg : [mixed_precision : BOOLEAN, use_fp16 : BOOLEAN],
     rank : {0, 1}]

\* get_policies(cfg, rank) (lines 351-381)
GetPolicies ==
    /\ ~policy.called
    /\ policy' = [called |-> TRUE, env |-> policy.env, cfg |-> policy.cfg,
                  rank |-> policy.rank,
                  mixed_precision_policy |->
                      MixedPrecisionPolicy(policy.cfg, VerifyBfloatSupport(policy.env)),
                  wrapping_policy |-> "get_llama_wrapper()"]
    /\ UNCHANGED <<cfg, trainVars, lr_ret, ranks>>

InitPolicies ==
    /\ AtEntry(Defaults)
    /\ lr_ret = <<>>
    /\ NoRanks
    /\ \E i \in PolicyInputs :
         policy = [called |-> FALSE, env |-> i.env, cfg |-> i.cfg, rank |-> i.rank]

SpecPolicies == InitPolicies /\ [][GetPolicies]_vars

\* C6: get_policies returns bfSixteen exactly when mixed_precision is set, bf16
\* is supported and use_fp16 is not set; fpSixteen exactly when mixed_precision
\* and use_fp16 are set (whatever the bf16 support); None in every other case;
\* and get_llama_wrapper() as the wrapping policy in all cases.
PolicySelection ==
    policy.called =>
        LET mp == policy.cfg.mixed_precision
            fp == policy.cfg.use_fp16
            bf == VerifyBfloatSupport(policy.env)
            got == policy.mixed_precision_policy
        IN  /\ got = "bfSixteen" <=> (mp /\ bf /\ ~fp)
            /\ got = "fpSixteen" <=> (mp /\ fp)
            /\ got = None <=> (~mp \/ (~bf /\ ~fp))
            /\ policy.wrapping_policy = "get_llama_wrapper()"

\* fp16 was asked for on a platform that supports bf16, and fpSixteen came back
PolicySelectionWitness ==
    /\ policy.called
    /\ policy.cfg.mixed_precision
    /\ policy.cfg.use_fp16
    /\ VerifyBfloatSupport(policy.env)
    /\ policy.mixed_precision_policy = "fpSixteen"

\* ------------------------------------------------------- train under FSDP
\* Every rank runs train; the ranks meet only in collectives: the all_reduce of
\* lines 139 and 275 and the dist.barrier of lines 169 and 196.  A collective
\* returns on a rank once every rank has entered one.  Of the training part only
\* its collective is kept, and evaluation runs over one batch per rank.
Ranks == 1..WorldSize
InCollective == {"all_reduce_train", "all_reduce_eval", "barrier_before", "barrier_after"}

RECURSIVE SumOver(_, _)
SumOver(f, S) ==
    IF S = {} THEN Zero
    ELSE LET x == CHOOSE x \in S : TRUE IN RAdd(f[x], SumOver(f, S \ {x}))

\* lines 80-143 on rank r: the all_reduce of total_loss when several devices are visible
DistTrain(r) ==
    /\ ranks[r].pc = "train"
    /\ ranks' = [ranks EXCEPT ![r].pc =
                    IF cfg.device_count > 1 /\ cfg.enable_fsdp
                    THEN "all_reduce_train" ELSE "evaluation"]
    /\ UNCHANGED <<cfg, trainVars, lr_ret, policy>>

\* eval_epoch_loss of evaluation without the all_reduce (lines 278-280)
LocalEvalLoss(l, c) ==
    IF c.enable_fsdp THEN RDiv(Int2Rat(l), Int2Rat(c.world_size)) ELSE Int2Rat(l)

\* evaluation on rank r (lines 238-289, called at line 162) up to its all_reduce
DistEvaluation(r) ==
    /\ ranks[r].pc = "evaluation"
    /\ \E l \in cfg.eval_values :
        ranks' = [ranks EXCEPT ![r] =
            IF cfg.device_count > 1 /\ cfg.enable_fsdp
            THEN [@ EXCEPT !.pc = "all_reduce_eval", !.eval_loss = Int2Rat(l)]
            ELSE [@ EXCEPT !.pc = "checkpoint", !.eval_loss = Int2Rat(l),
                           !.eval_epoch_loss = LocalEvalLoss(l, cfg)]]
    /\ UNCHANGED <<cfg, trainVars, lr_ret, policy>>

\* line 167 on rank r: enter the checkpoint block, first its barrier, or skip it
DistCheckpoint(r) ==
    /\ ranks[r].pc = "checkpoint"
    /\ LET save == SaveCondition(cfg, ranks[r].epoch, ranks[r].eval_epoch_loss,
                                 ranks[r].best_val_loss)
       IN  ranks' = [ranks EXCEPT ![r].pc = IF save THEN "barrier_before" ELSE "best",
                                  ![r].entered = Append(@, save)]
    /\ UNCHANGED <<cfg, trainVars, lr_ret, policy>>

\* lines 170-196 on rank r: the save routines, then the second barrier
DistSave(r) ==
    /\ ranks[r].pc = "save"
    /\ ranks' = [ranks EXCEPT ![r].pc = "barrier_after"]
    /\ UNCHANGED <<cfg, trainVars, lr_ret, policy>>

\* lines 199-206 on rank r, and the next epoch or the end of train
DistBest(r) ==
    /\ ranks[r].pc = "best"
    /\ ranks' = [ranks EXCEPT
                    ![r].best_val_loss = NewBest(ranks[r].eval_epoch_loss, @),
                    ![r].epoch = @ + 1,
                    ![r].pc = IF ranks[r].epoch + 1 < cfg.num_epochs
                              THEN "train" ELSE "done"]
    /\ UNCHANGED <<cfg, trainVars, lr_ret, policy>>

\* where a rank goes on when its collective returns
AfterCollective(rk, sum, c) ==
    IF rk.pc = "all_reduce_train" THEN [rk EXCEPT !.pc = "evaluation"]
    ELSE IF rk.pc = "all_reduce_eval"
    THEN [rk EXCEPT !.pc = "checkpoint",
                    !.eval_epoch_loss = RDiv(sum, Int2Rat(c.world_size))]
    ELSE IF rk.pc = "barrier_before" THEN [rk EXCEPT !.pc = "save"]
    ELSE [rk EXCEPT !.pc = "best"]

\* every rank has entered a collective: it returns on all of them
Collective ==
    /\ \A r \in Ranks : ranks[r].pc \in InCollective
    /\ LET sum == SumOver([r \in Ranks |-> ranks[r].eval_loss], Ranks)
       IN  ranks' = [r \in Ranks |-> AfterCollective(ranks[r], sum, cfg)]
    /\ UNCHANGED <<cfg, trainVars, lr_ret, policy>>

DistConfigs ==
    {With(v) : v \in [enable_fsdp : {TRUE}, device_count : {1, 2},
                      num_epochs : 1..MaxDistEpochs, eval_values : {1..MaxLoss}]}

InitDist ==
    /\ \E c \in DistConfigs : AtEntry(c)
    /\ NoDirectCalls
    /\ ranks = [r \in Ranks |->
                  [pc |-> "train", epoch |-> 0, best_val_loss |-> Inf,
                   eval_loss |-> Zero, eval_epoch_loss |-> Inf, entered |-> <<>>]]

NextDist ==
    \/ \E r \in Ranks : DistTrain(r)
    \/ \E r \in Ranks : DistEvaluation(r)
    \/ \E r \in Ranks : DistCheckpoint(r)
    \/ \E r \in Ranks : DistSave(r)
    \/ \E r \in Ranks : DistBest(r)
    \/ Collective

SpecDist == InitDist /\ [][NextDist]_vars

\* C7: under FSDP with run_validation and save_model, in every epoch either all
\* ranks call dist.barrier() or none does, whatever the ranks' local evaluation
\* losses and however many CUDA devices a process sees; so no rank is left
\* waiting in a barrier by a rank that has finished train.
BarrierAgreement ==
    /\ \A r1, r2 \in Ranks :
         \A e \in DOMAIN ranks[r1].entered \cap DOMAIN ranks[r2].entered :
            ranks[r1].entered[e] = ranks[r2].entered[e]
    /\ ~\E r1, r2 \in Ranks :
         ranks[r1].pc = "done" /\ ranks[r2].pc \in {"barrier_before", "barrier_after"}

====
